---- MODULE Spec2Model ----
\* gostore: a bolt-backed record store with an optional LRU cache (lazy TTL)
\* and single-flight memoization.  The model follows the newest store
\* (src/unnamed/part_003) and the TTL-aware lru (src/unnamed/part_000).
EXTENDS Integers, Sequences, FiniteSets, TLC

\* ------------------------------------------------------------------ bounds
\* The clock runs in ticks; TicksPerSecond ticks make one second, so that the
\* whole-second truncation of Expire.Unix() is visible.
TicksPerSecond == 3
MaxTime == 4
\* Expiries handed to the cache directly are instants 1..MaxExpire.
MaxExpire == 2
MaxCap == 2
NumProcs == 2
\* Operations a single caller runs one after the other.
MaxOps == 2
\* Operations concurrent callers start in all.
MaxCalls == 2
\* Namespaced operations a single caller runs one after the other.
MaxRawOps == 3
\* Ticks the clock may advance while concurrent callers run.
MaxSkew == 1

\* ------------------------------------------------------------- value sets
Keys == {"a", "b", "c"}
Vals == {1, 2}
Procs == 1..NumProcs
Ticks == 0..MaxTime
\* TTL arguments in whole seconds; 0 means no expiry.
TTLs == {0, 1}
\* Keys the facade is called with, and the bucket Update/Load/Remove use.
StoreKeys == {"a"}
_defaultBucket == "default"
Namespaces == {_defaultBucket, "test"}
_defaultNumRetries == 3
\* WithNumRetries arguments tried (0 leaves the default in place).
RetryOpts == {0, 1}
\* WithMaxCacheSize arguments tried (0 leaves the cache disabled).
CacheOpts == {0, 1}
\* A nil value argument; a computeFn or caller value is one of Vals otherwise.
NilValue == 0
\* The content of a target nothing was decoded into.
Unset == 0

\* time.Time{} : the zero time, earlier than every time the clock shows.
ZeroTime == -1
\* time.Time{}.Unix(), the timestamp the zero time is written as.
ZeroUnix == -1

None == [none |-> TRUE]

\* ------------------------------------------------------------------- time
IsZero(t) == t = ZeroTime

\* t.After(u)
After(t, u) == t > u

\* time.Now().Add(time.Duration(ttl) * time.Second)
AddSeconds(t, ttl) == t + ttl * TicksPerSecond

\* v.Expire.Unix(): whole seconds, the sub-second part is dropped.
Unix(t) == IF IsZero(t) THEN ZeroUnix ELSE t \div TicksPerSecond

\* time.Unix(expire, 0)
FromUnix(s) == IF s = ZeroUnix THEN ZeroTime ELSE s * TicksPerSecond

\* -------------------------------------------------- container/list helpers
\* Position of the element the map holds for key: the frontmost entry of the
\* list that carries the key, 0 when none does.
IndexOf(list, key) ==
    IF \E i \in 1..Len(list) : list[i].key = key
    THEN CHOOSE i \in 1..Len(list) :
             /\ list[i].key = key
             /\ \A j \in 1..(i - 1) : list[j].key # key
    ELSE 0

RemoveAt(list, i) ==
    [j \in 1..(Len(list) - 1) |-> IF j < i THEN list[j] ELSE list[j + 1]]

\* evictList.MoveToFront(ent); a no-op when ent is no longer in the list.
MoveToFront(list, i) ==
    IF i = 0 THEN list ELSE <<list[i]>> \o RemoveAt(list, i)

\* -------------------------------------------------------------------- lru
\* An lru value is [evictList |-> sequence of entries, front first,
\*                  items |-> the keys of the map, size |-> capacity].
\* An entry is [key, expire, value].
newLRU(size) == [evictList |-> <<>>, items |-> {}, size |-> size]

\* `ent, ok := l.items[key]`
Lookup(l, key) == key \in l.items

\* removeElement that unlinks the element and leaves its key in the map.
removeElementKeepMap(l, i) ==
    IF i = 0 THEN l
    ELSE [l EXCEPT !.evictList = RemoveAt(l.evictList, i)]

\* removeElement(e) for the element at position i: unlink it and delete its
\* key from the map.
removeElement(l, i) ==
    IF i = 0 THEN l
    ELSE [l EXCEPT !.evictList = RemoveAt(l.evictList, i),
                   !.items = l.items \ {l.evictList[i].key}]

\* removeOldest: remove the element at the back of the list, if any.
removeOldest(l) == removeElement(l, Len(l.evictList))

\* Add that forgets the capacity check.
AddApplyNoEvict(l, ok, key, expire, value) ==
    IF ok
    THEN LET i == IndexOf(l.evictList, key) IN
         IF i = 0 THEN l
         ELSE [l EXCEPT !.evictList =
                   <<[l.evictList[i] EXCEPT !.value = value]>>
                       \o RemoveAt(l.evictList, i)]
    ELSE [l EXCEPT
             !.evictList = <<[key |-> key, expire |-> expire, value |-> value]>>
                              \o l.evictList,
             !.items = l.items \cup {key}]

\* Add that replaces the value of a resident key where the entry stands.
AddApplyNoMove(l, ok, key, expire, value) ==
    IF ok
    THEN LET i == IndexOf(l.evictList, key) IN
         IF i = 0 THEN l
         ELSE [l EXCEPT !.evictList[i].value = value]
    ELSE LET pushed == [l EXCEPT
                 !.evictList = <<[key |-> key, expire |-> expire, value |-> value]>>
                                  \o l.evictList,
                 !.items = l.items \cup {key}] IN
         IF Len(pushed.evictList) > pushed.size
         THEN removeOldest(pushed)
         ELSE pushed

\* The body of Add after the map lookup gave ok.
AddApply(l, ok, key, expire, value) ==
    IF ok
    THEN LET i == IndexOf(l.evictList, key) IN
         IF i = 0 THEN l
         ELSE [l EXCEPT !.evictList =
                   <<[l.evictList[i] EXCEPT !.value = value]>>
                       \o RemoveAt(l.evictList, i)]
    ELSE LET pushed == [l EXCEPT
                 !.evictList = <<[key |-> key, expire |-> expire, value |-> value]>>
                                  \o l.evictList,
                 !.items = l.items \cup {key}] IN
         IF Len(pushed.evictList) > pushed.size
         THEN removeOldest(pushed)
         ELSE pushed

Add(l, key, expire, value) == AddApply(l, Lookup(l, key), key, expire, value)

\* Get that does not move the entry to the front.
GetApplyNoMove(l, ok, key, t) ==
    LET i == IndexOf(l.evictList, key) IN
    IF ~ok \/ i = 0
    THEN [lru |-> l, value |-> None, ok |-> FALSE]
    ELSE LET e == l.evictList[i] IN
         IF IsZero(e.expire) \/ After(e.expire, t)
         THEN [lru |-> l, value |-> e.value, ok |-> TRUE]
         ELSE [lru |-> removeElement(l, i), value |-> None, ok |-> FALSE]

\* Get that still serves an entry at the instant of its expiry.
GetApplyLate(l, ok, key, t) ==
    LET i == IndexOf(l.evictList, key) IN
    IF ~ok \/ i = 0
    THEN [lru |-> l, value |-> None, ok |-> FALSE]
    ELSE LET e == l.evictList[i]
             moved == [l EXCEPT !.evictList = MoveToFront(l.evictList, i)] IN
         IF IsZero(e.expire) \/ e.expire >= t
         THEN [lru |-> moved, value |-> e.value, ok |-> TRUE]
         ELSE [lru |-> removeElement(moved, 1), value |-> None, ok |-> FALSE]

\* The body of Get after the map lookup gave ok, at clock reading t.
\* The result is [lru, value, ok].
GetApply(l, ok, key, t) ==
    LET i == IndexOf(l.evictList, key) IN
    IF ~ok \/ i = 0
    THEN [lru |-> l, value |-> None, ok |-> FALSE]
    ELSE LET e == l.evictList[i]
             moved == [l EXCEPT !.evictList = MoveToFront(l.evictList, i)] IN
         IF IsZero(e.expire) \/ After(e.expire, t)
         THEN [lru |-> moved, value |-> e.value, ok |-> TRUE]
         ELSE [lru |-> removeElement(moved, 1), value |-> None, ok |-> FALSE]

Get(l, key, t) == GetApply(l, Lookup(l, key), key, t)

\* Delete that removes the entry at the back of the list.
DeleteApplyOldest(l, ok, key) ==
    IF ok THEN removeOldest(l) ELSE l

\* The body of Delete after the map lookup gave ok.
DeleteApply(l, ok, key) ==
    IF ok THEN removeElement(l, IndexOf(l.evictList, key)) ELSE l

Delete(l, key) == DeleteApply(l, Lookup(l, key), key)

\* ------------------------------------------------------------------ state
VARIABLES
    now,      \* the wall clock, in ticks
    lru,      \* Store.lru: None when the cache is disabled, else an lru value
    opt,      \* Store.opt: [numRetries, maxCacheSize]
    db,       \* the bolt file: namespace -> None (no bucket) or key -> None | record
    group,    \* Store.group: key -> None or the call in flight for it
    proc,     \* per caller: the operation it runs, its position and locals
    ops,      \* operations started so far
    stats,    \* per key: computeFn executions and engine writes so far
    hist,     \* what the last operations on each key were (single caller)
    lastOp,   \* the last direct cache operation and what it returned
    recency,  \* keys in the order they were last touched, most recent first
    plain     \* TRUE while no expiry was put and no delete was issued

vars == <<now, lru, opt, db, group, proc, ops, stats, hist, lastOp, recency, plain>>

storeVars == <<opt, db, group, proc, ops, stats, hist>>
cacheHist == <<lastOp, recency, plain>>

\* The expiries a caller can hand to Add: none, or an instant of the clock.
Expiries == {ZeroTime} \cup (1..MaxExpire)

Touch(seq, key) == <<key>> \o SelectSeq(seq, LAMBDA k : k # key)

\* A caller that runs nothing.  Fields: op/pc the operation and the position
\* in it; key, val, ttl, objNil, obj the arguments and the target; buf the
\* marshalled value; ok, exp, c, err the locals of the lru lookup,
\* tryAddToLRU and PutWithTTL; res what group.Do returned; ret the outcome.
\* The rest records the call's history: loadRes the outcome of the load in it,
\* ran/joined whether it ran computeFn or joined a call, wrote/filled whether
\* it wrote the engine or the cache, hit/read whether its load was served by
\* the cache or read the engine,
\* exhausted whether every pass of its write failed, t0 the clock at the start
\* of an update, a load or a Get and at the write of a memoize with a TTL,
\* ent0 and rec0 the cache entry and the record of the key at the start of an
\* update, a memoize or a remove, ns the namespace of a Put, Get, Delete or
\* DeleteNamespace.
IdleProc ==
    [op |-> "idle", pc |-> "idle", key |-> "", val |-> NilValue, ttl |-> 0,
     objNil |-> FALSE, obj |-> Unset, buf |-> None, ok |-> FALSE,
     exp |-> ZeroTime, c |-> 0, err |-> "nil", res |-> NilValue, ret |-> "none",
     loadRes |-> "none", ran |-> FALSE, joined |-> 0, wrote |-> FALSE,
     filled |-> FALSE, hit |-> FALSE, read |-> FALSE, exhausted |-> FALSE,
     t0 |-> 0, ent0 |-> None, rec0 |-> None, ns |-> _defaultBucket]

NoStats == [k \in StoreKeys |-> [computes |-> 0, writes |-> 0]]
NoHist == [k \in StoreKeys |-> None]

\* The clock advances by one tick, up to limit.
Tick(limit) ==
    /\ now < limit
    /\ now' = now + 1
    /\ lastOp' = [op |-> "none"]
    /\ UNCHANGED <<lru, recency, plain, storeVars>>

\* ------------------------------------------ the cache driven on its own
InitLRU ==
    /\ now = 0
    /\ \E size \in 1..MaxCap : lru = newLRU(size)
    /\ lastOp = [op |-> "none"]
    /\ recency = <<>>
    /\ plain = TRUE
    /\ opt = [numRetries |-> _defaultNumRetries, maxCacheSize |-> lru.size]
    /\ db = [ns \in Namespaces |-> None]
    /\ group = [k \in StoreKeys |-> None]
    /\ proc = [p \in Procs |-> IdleProc]
    /\ ops = 0
    /\ stats = NoStats
    /\ hist = NoHist

CacheAdd(key, expire, value) ==
    /\ lru' = Add(lru, key, expire, value)
    /\ lastOp' = [op |-> "add", key |-> key, had |-> Lookup(lru, key),
                  count |-> Len(lru.evictList), expire |-> expire,
                  value |-> value, ok |-> TRUE]
    /\ recency' = Touch(recency, key)
    /\ plain' = (plain /\ IsZero(expire))
    /\ UNCHANGED <<now, storeVars>>

CacheGet(key) ==
    LET r == Get(lru, key, now)
        i == IndexOf(lru.evictList, key) IN
    /\ lru' = r.lru
    /\ lastOp' = [op |-> "get", key |-> key, had |-> Lookup(lru, key),
                  count |-> Len(lru.evictList),
                  expire |-> IF i = 0 THEN ZeroTime ELSE lru.evictList[i].expire,
                  value |-> r.value, ok |-> r.ok,
                  stored |-> IF i = 0 THEN None ELSE lru.evictList[i].value]
    /\ recency' = IF r.ok THEN Touch(recency, key) ELSE recency
    /\ UNCHANGED <<now, plain, storeVars>>

CacheDelete(key) ==
    /\ lru' = Delete(lru, key)
    /\ lastOp' = [op |-> "delete", key |-> key, had |-> Lookup(lru, key),
                  count |-> Len(lru.evictList)]
    /\ plain' = FALSE
    /\ UNCHANGED <<now, recency, storeVars>>

NextLRU ==
    \/ Tick(MaxTime)
    \/ \E k \in Keys, e \in Expiries, v \in Vals : CacheAdd(k, e, v)
    \/ \E k \in Keys : CacheGet(k)
    \/ \E k \in Keys : CacheDelete(k)

SpecLRU == InitLRU /\ [][NextLRU]_vars

TypeLRU ==
    /\ now \in Ticks
    /\ lru.items \subseteq Keys


\* ----------------------------------------------------------- the engine
\* Open that leaves numRetries as configured.
OpenNoDefault(n, size) ==
    [numRetries |-> n, maxCacheSize |-> size]

\* Open: the options as Open leaves them.
Open(n, size) ==
    [numRetries |-> IF n = 0 THEN _defaultNumRetries ELSE n,
     maxCacheSize |-> size]

\* value.MarshalBinary() and obj.UnmarshalBinary(buf) of the caller's type.
Encode(v) == [bytes |-> v]
Decode(buf) == buf.bytes

\* newValueT(value, ttl), time.Now() reading t.
newValueT(value, ttl, t) ==
    [Value |-> value,
     Expire |-> IF ttl = 0 THEN ZeroTime ELSE AddSeconds(t, ttl)]

\* valueT.MarshalBinary: the value bytes, then Expire.Unix().
MarshalBinary(v) == [value |-> v.Value, expire |-> Unix(v.Expire)]

\* UnmarshalBinary that reads the expiry and drops the value.
UnmarshalBinaryNoValue(data) ==
    [Value |-> Encode(NilValue), Expire |-> FromUnix(data.expire)]

\* valueT.UnmarshalBinary
UnmarshalBinary(data) == [Value |-> data.value, Expire |-> FromUnix(data.expire)]

\* valueT.isExpired, time.Now() reading t.
isExpired(v, t) == ~IsZero(v.Expire) /\ After(t, v.Expire)

\* The write transaction of PutWithTTL: CreateBucketIfNotExists, bucket.Put.
BucketPut(d, ns, key, data) ==
    [d EXCEPT ![ns] =
        IF d[ns] = None
        THEN [k \in StoreKeys |-> IF k = key THEN data ELSE None]
        ELSE [d[ns] EXCEPT ![key] = data]]

\* The write transaction of Delete: nothing to do without the bucket.
BucketDelete(d, ns, key) ==
    IF d[ns] = None THEN d ELSE [d EXCEPT ![ns] = [d[ns] EXCEPT ![key] = None]]

\* Store.get: the read transaction.
get(d, ns, key) ==
    IF d[ns] = None
    THEN [err |-> "ErrKeyNotFound", value |-> None]
    ELSE IF d[ns][key] = None
         THEN [err |-> "ErrKeyNotFound", value |-> None]
         ELSE [err |-> "nil", value |-> UnmarshalBinary(d[ns][key])]

\* Store.Get without the test for a record that has no expiry.
StoreGetNoZero(d, ns, key, t) ==
    LET r == get(d, ns, key) IN
    IF r.err # "nil" THEN [err |-> r.err, value |-> None]
    ELSE IF After(t, r.value.Expire) THEN [err |-> "ErrKeyExpired", value |-> None]
    ELSE [err |-> "nil", value |-> r.value.Value]

\* Store.Get, time.Now() reading t.
StoreGet(d, ns, key, t) ==
    LET r == get(d, ns, key) IN
    IF r.err # "nil" THEN [err |-> r.err, value |-> None]
    ELSE IF IsZero(r.value.Expire) THEN [err |-> "nil", value |-> r.value.Value]
    ELSE IF After(t, r.value.Expire) THEN [err |-> "ErrKeyExpired", value |-> None]
    ELSE [err |-> "nil", value |-> r.value.Value]

\* The write transaction of DeleteNamespace: tx.DeleteBucket fails for a
\* bucket that does not exist.
DeleteNamespace(d, ns) ==
    IF d[ns] = None THEN [db |-> d, err |-> "ErrBucketNotFound"]
    ELSE [db |-> [d EXCEPT ![ns] = None], err |-> "nil"]

\* Load after the cache missed: get, isExpired, UnmarshalBinary.
LoadRead(d, key, t) ==
    LET r == get(d, _defaultBucket, key) IN
    IF r.err # "nil" THEN [err |-> r.err, obj |-> Unset]
    ELSE IF isExpired(r.value, t) THEN [err |-> "ErrKeyExpired", obj |-> Unset]
    ELSE [err |-> "nil", obj |-> Decode(r.value.Value)]

\* ------------------------------------------------- positions of a caller
\* The call returns ret; its locals are gone.
Done(rec, ret) ==
    [rec EXCEPT !.pc = "done", !.ret = ret, !.buf = None, !.ok = FALSE,
                !.exp = ZeroTime, !.c = 0, !.err = "nil"]

\* MemoizeWithTTL that goes on to group.Do after any failed load.
AfterLoadAnyErr(rec, err) ==
    LET r == [rec EXCEPT !.loadRes = err] IN
    IF r.op = "load" THEN Done(r, err)
    ELSE IF err = "nil" THEN Done(r, "nil")
    ELSE [r EXCEPT !.pc = "do"]

\* What follows the load: Load returns its outcome; MemoizeWithTTL returns
\* unless the outcome is ErrKeyNotFound or ErrKeyExpired, and then goes on to
\* group.Do.
AfterLoad(rec, err) ==
    LET r == [rec EXCEPT !.loadRes = err] IN
    IF r.op = "load" THEN Done(r, err)
    ELSE IF err = "nil" THEN Done(r, "nil")
    ELSE IF err # "ErrKeyNotFound" /\ err # "ErrKeyExpired" THEN Done(r, err)
    ELSE [r EXCEPT !.pc = "do"]

\* Load up to its first shared access.
BeginLoad(rec, cacheOn) ==
    IF rec.objNil THEN AfterLoad(rec, "ErrBadValue")
    ELSE IF cacheOn THEN [rec EXCEPT !.pc = "lget"]
    ELSE [rec EXCEPT !.pc = "lread"]

\* What follows tryAddToLRU: UpdateWithTTL returns nil; the function given to
\* group.Do decodes buf into the target of the caller that runs it and returns.
AfterFill(rec) ==
    IF rec.op = "update" THEN Done(rec, "nil")
    ELSE [rec EXCEPT !.obj = Decode(rec.buf), !.pc = "publish", !.err = "nil"]

\* A caller that fills the cache whatever PutWithTTL returned.
AfterPutAlwaysFill(rec, cacheOn) ==
    IF cacheOn THEN [rec EXCEPT !.pc = "fill"]
    ELSE IF rec.err # "nil"
         THEN IF rec.op = "update" THEN Done(rec, "PutFailed")
              ELSE [rec EXCEPT !.pc = "publish", !.err = "PutFailed"]
         ELSE AfterFill(rec)

\* What follows the retry loop of PutWithTTL, which left rec.err: an error is
\* wrapped and returned by the caller, otherwise tryAddToLRU runs (and returns
\* at once without a cache).
AfterPut(rec, cacheOn) ==
    IF rec.err # "nil"
    THEN IF rec.op \in {"update", "put"} THEN Done(rec, "PutFailed")
         ELSE [rec EXCEPT !.pc = "publish", !.err = "PutFailed"]
    ELSE IF rec.op = "put" THEN Done(rec, "nil")
    ELSE IF cacheOn THEN [rec EXCEPT !.pc = "fill"]
    ELSE AfterFill(rec)

\* A group that never finds a call in flight.
InFlightNever(g, key) == FALSE

\* group.Do finds a call in flight for the key.
InFlight(g, key) == g[key] # None

CacheOn == lru # None

\* The summary kept of an update, remove or memoize that ended: its outcome;
\* for an update with a TTL that succeeded while the clock stood still, the
\* value and the instant t0 + ttl; for an update without TTL that succeeded,
\* the value; for a write that failed, whether the key
\* was resident in the cache; whether a memoize that failed in computeFn or
\* in its write came right before it; for a memoize that computed and wrote,
\* the value and (with a TTL) the instant of its write + ttl, and the same two
\* of the call before.
Summary(rec, prev, l, t) ==
    LET timed == rec.op = "update" /\ rec.ret = "nil" /\ rec.ttl > 0 /\ rec.t0 = t
        memoized == rec.op = "memoize" /\ rec.ran /\ rec.ret = "nil"
    IN
    [op |-> rec.op, ret |-> rec.ret,
     val |-> IF timed THEN rec.val ELSE NilValue,
     deadline |-> IF timed THEN AddSeconds(rec.t0, rec.ttl) ELSE 0,
     failed |-> rec.op = "memoize" /\ rec.ran /\ rec.ret # "nil",
     afterFailed |-> IF prev = None THEN FALSE ELSE prev.failed,
     upd |-> IF rec.op = "update" /\ rec.ret = "nil" /\ rec.ttl = 0
             THEN rec.val ELSE NilValue,
     memo |-> IF memoized THEN rec.val ELSE NilValue,
     memoDeadline |-> IF memoized /\ rec.ttl > 0
                      THEN AddSeconds(rec.t0, rec.ttl) ELSE 0,
     prevMemo |-> IF prev = None THEN NilValue ELSE prev.memo,
     prevDeadline |-> IF prev = None THEN 0 ELSE prev.memoDeadline,
     resident |-> IF l = None \/ rec.ret # "PutFailed" THEN FALSE
                  ELSE Lookup(l, rec.key)]

\* hist after a caller moved to rec.
Note(h, rec, l, t) ==
    IF rec.pc = "done" /\ rec.op \in {"update", "remove", "memoize"}
    THEN [h EXCEPT ![rec.key] = Summary(rec, h[rec.key], l, t)]
    ELSE h

\* One caller moves to rec; everything the step does not name stays.
Step(p, rec, l, d) ==
    /\ proc' = [proc EXCEPT ![p] = rec]
    /\ lru' = l
    /\ db' = d
    /\ hist' = Note(hist, rec, l, now)
    /\ UNCHANGED <<now, opt, cacheHist>>

\* The entry the cache holds for key, the record the default bucket holds.
Entry(l, key) ==
    IF l = None THEN None
    ELSE IF IndexOf(l.evictList, key) = 0 THEN None
         ELSE l.evictList[IndexOf(l.evictList, key)]

Record(d, key) ==
    IF d[_defaultBucket] = None THEN None ELSE d[_defaultBucket][key]

NewCall(op, key, val, ttl, objNil) ==
    [IdleProc EXCEPT !.op = op, !.key = key, !.val = val, !.ttl = ttl,
                     !.objNil = objNil,
                     !.t0 = IF op \in {"update", "load", "get"} THEN now ELSE 0,
                     !.ent0 = IF op \in {"update", "memoize", "remove"}
                              THEN Entry(lru, key) ELSE None,
                     !.rec0 = IF op \in {"update", "memoize", "remove"}
                              THEN Record(db, key) ELSE None]

\* ------------------------------------------------------------- the facade
\* Caller p may start an operation: it runs none, fewer than limit were
\* started, and (callers being interchangeable) caller p is not the first to
\* start before p - 1 operations were started.
CanStart(p, limit) ==
    /\ proc[p].pc = "idle"
    /\ ops < limit
    /\ p <= ops + 1

\* UpdateWithTTL(key, value, ttl) up to PutWithTTL.
StartUpdate(p, limit) ==
    /\ CanStart(p, limit)
    /\ \E key \in StoreKeys, v \in Vals \cup {NilValue}, ttl \in TTLs :
          LET rec == NewCall("update", key, v, ttl, FALSE) IN
          Step(p, IF v = NilValue THEN Done(rec, "ErrBadValue")
                  ELSE [rec EXCEPT !.buf = Encode(v), !.pc = "put"], lru, db)
    /\ ops' = ops + 1
    /\ UNCHANGED <<group, stats>>

\* Load(key, obj) up to the cache lookup or the read transaction.
StartLoad(p, limit) ==
    /\ CanStart(p, limit)
    /\ \E key \in StoreKeys, objNil \in BOOLEAN :
          Step(p, BeginLoad(NewCall("load", key, NilValue, 0, objNil), CacheOn),
               lru, db)
    /\ ops' = ops + 1
    /\ UNCHANGED <<group, stats>>

\* Remove(key) up to the cache delete or the write transaction.
StartRemove(p, limit) ==
    /\ CanStart(p, limit)
    /\ \E key \in StoreKeys :
          Step(p, [NewCall("remove", key, NilValue, 0, FALSE) EXCEPT
                      !.pc = IF CacheOn THEN "rdel" ELSE "rdb"], lru, db)
    /\ ops' = ops + 1
    /\ UNCHANGED <<group, stats>>

\* MemoizeWithTTL(key, obj, f, ttl) up to the first shared access of its Load.
StartMemoize(p, limit) ==
    /\ CanStart(p, limit)
    /\ \E key \in StoreKeys, objNil \in BOOLEAN, ttl \in TTLs :
          Step(p, BeginLoad(NewCall("memoize", key, NilValue, ttl, objNil), CacheOn),
               lru, db)
    /\ ops' = ops + 1
    /\ UNCHANGED <<group, stats>>

\* Load: `s.lru.Get(key)`, the map lookup.
LoadLookup(p) ==
    /\ proc[p].pc = "lget"
    /\ Step(p, [proc[p] EXCEPT !.ok = Lookup(lru, proc[p].key), !.pc = "lget2"],
            lru, db)
    /\ UNCHANGED <<group, stats, ops>>

\* Load that decodes a hit and reads the engine all the same.
LoadCacheThenRead(p) ==
    /\ proc[p].pc = "lget2"
    /\ LET r == GetApply(lru, proc[p].ok, proc[p].key, now) IN
       Step(p, IF r.ok
               THEN [proc[p] EXCEPT !.obj = Decode(r.value), !.hit = TRUE,
                                    !.pc = "lread"]
               ELSE [proc[p] EXCEPT !.pc = "lread"],
            r.lru, db)
    /\ UNCHANGED <<group, stats, ops>>

\* Load: the rest of lru.Get; a hit is decoded into the target.
LoadCache(p) ==
    /\ proc[p].pc = "lget2"
    /\ LET r == GetApply(lru, proc[p].ok, proc[p].key, now) IN
       Step(p, IF r.ok
               THEN AfterLoad([proc[p] EXCEPT !.obj = Decode(r.value),
                                              !.hit = TRUE], "nil")
               ELSE [proc[p] EXCEPT !.pc = "lread"],
            r.lru, db)
    /\ UNCHANGED <<group, stats, ops>>

\* Load: the read transaction and the expiry check.
LoadEngine(p) ==
    /\ proc[p].pc = "lread"
    /\ LET r == LoadRead(db, proc[p].key, now) IN
       Step(p, AfterLoad([proc[p] EXCEPT !.read = TRUE,
                              !.obj = IF r.err = "nil" THEN r.obj ELSE @], r.err),
            lru, db)
    /\ UNCHANGED <<group, stats, ops>>

\* Load: the read transaction fails in the engine.
LoadEngineFails(p) ==
    /\ proc[p].pc = "lread"
    /\ Step(p, AfterLoad([proc[p] EXCEPT !.read = TRUE], "EngineErr"), lru, db)
    /\ UNCHANGED <<group, stats, ops>>

\* Load: obj.UnmarshalBinary rejects the bytes of a live entry or record (the
\* target is not of the type that wrote them).
LoadDecodeFails(p) ==
    /\ \/ /\ proc[p].pc = "lget2"
          /\ LET r == GetApply(lru, proc[p].ok, proc[p].key, now) IN
             /\ r.ok
             /\ Step(p, AfterLoad([proc[p] EXCEPT !.hit = TRUE], "DecodeErr"),
                     r.lru, db)
       \/ /\ proc[p].pc = "lread"
          /\ LoadRead(db, proc[p].key, now).err = "nil"
          /\ Step(p, AfterLoad([proc[p] EXCEPT !.read = TRUE], "DecodeErr"),
                  lru, db)
    /\ UNCHANGED <<group, stats, ops>>

\* group.Do(key, fn): join the call in flight, or register a call and run fn,
\* which starts with computeFn.
Do(p) ==
    /\ proc[p].pc = "do"
    /\ IF InFlight(group, proc[p].key)
       THEN /\ Step(p, [proc[p] EXCEPT !.pc = "wait",
                            !.joined = group[proc[p].key].owner], lru, db)
            /\ UNCHANGED <<group, stats>>
       ELSE /\ Step(p, [proc[p] EXCEPT !.pc = "compute", !.ran = TRUE], lru, db)
            /\ group' = [group EXCEPT ![proc[p].key] = [owner |-> p]]
            /\ stats' = [stats EXCEPT ![proc[p].key].computes = @ + 1]
    /\ UNCHANGED ops

\* computeFn returns a value, which is marshalled.
ComputeReturns(p) ==
    /\ proc[p].pc = "compute"
    /\ \E v \in Vals :
          Step(p, [proc[p] EXCEPT !.val = v, !.buf = Encode(v), !.pc = "put"],
               lru, db)
    /\ UNCHANGED <<group, stats, ops>>

\* computeFn returns an error, or data that is no BinaryMarshaler.
ComputeFails(p) ==
    /\ proc[p].pc = "compute"
    /\ \E e \in {"ComputeErr", "ErrBadValue"} :
          Step(p, [proc[p] EXCEPT !.err = e, !.pc = "publish"], lru, db)
    /\ UNCHANGED <<group, stats, ops>>

\* PutWithTTL: one pass of the retry loop whose transaction commits.
PutCommits(p) ==
    /\ proc[p].pc = "put"
    /\ proc[p].c < opt.numRetries
    /\ Step(p, AfterPut([proc[p] EXCEPT
                             !.err = "nil", !.wrote = TRUE,
                             !.t0 = IF proc[p].op = "memoize" /\ proc[p].ttl > 0
                                    THEN now ELSE @], CacheOn),
            lru,
            BucketPut(db, proc[p].ns, proc[p].key,
                      MarshalBinary(newValueT(proc[p].buf, proc[p].ttl, now))))
    /\ stats' = [stats EXCEPT ![proc[p].key].writes = @ + 1]
    /\ UNCHANGED <<group, ops>>

\* A failing pass whose transaction leaves its record behind.
PutFailsPartial(p) ==
    /\ proc[p].pc = "put"
    /\ proc[p].c < opt.numRetries
    /\ LET rec == [proc[p] EXCEPT !.c = @ + 1, !.err = "EngineErr"] IN
       Step(p, IF rec.c < opt.numRetries THEN rec
               ELSE AfterPut([rec EXCEPT !.exhausted = TRUE], CacheOn),
            lru,
            BucketPut(db, _defaultBucket, proc[p].key,
                      MarshalBinary(newValueT(proc[p].buf, proc[p].ttl, now))))
    /\ UNCHANGED <<group, stats, ops>>

\* PutWithTTL: one pass of the retry loop whose transaction fails; after the
\* last pass the error is returned, wrapped with the key ("PutFailed").
PutFails(p) ==
    /\ proc[p].pc = "put"
    /\ proc[p].c < opt.numRetries
    /\ LET rec == [proc[p] EXCEPT !.c = @ + 1, !.err = "EngineErr"] IN
       Step(p, IF rec.c < opt.numRetries THEN rec
               ELSE AfterPut([rec EXCEPT !.exhausted = TRUE], CacheOn),
            lru, db)
    /\ UNCHANGED <<group, stats, ops>>

\* tryAddToLRU: the expiry from time.Now(), then the map lookup of lru.Add.
FillLookup(p) ==
    /\ proc[p].pc = "fill"
    /\ Step(p, [proc[p] EXCEPT
                   !.exp = IF proc[p].ttl > 0 THEN AddSeconds(now, proc[p].ttl)
                           ELSE ZeroTime,
                   !.ok = Lookup(lru, proc[p].key),
                   !.pc = "fill2"], lru, db)
    /\ UNCHANGED <<group, stats, ops>>

\* tryAddToLRU: the rest of lru.Add.
FillCache(p) ==
    /\ proc[p].pc = "fill2"
    /\ Step(p, AfterFill([proc[p] EXCEPT !.filled = TRUE]),
            AddApply(lru, proc[p].ok, proc[p].key, proc[p].exp, proc[p].buf), db)
    /\ UNCHANGED <<group, stats, ops>>

\* A group that drops its call without waking the callers that joined it.
PublishForgets(p) ==
    /\ proc[p].pc = "publish"
    /\ LET data == IF proc[p].err = "nil" THEN proc[p].val ELSE NilValue IN
       /\ proc' = [proc EXCEPT ![p] = Done([proc[p] EXCEPT !.res = data],
                                           proc[p].err)]
       /\ group' = [group EXCEPT ![proc[p].key] = None]
    /\ hist' = Note(hist, Done(proc[p], proc[p].err), lru, now)
    /\ UNCHANGED <<now, lru, opt, db, ops, stats, cacheHist>>

\* A group that hands the callers that joined the value but not the error.
PublishNoError(p) ==
    /\ proc[p].pc = "publish"
    /\ LET data == IF proc[p].err = "nil" THEN proc[p].val ELSE NilValue IN
       /\ proc' = [q \in Procs |->
                     IF q = p THEN Done([proc[p] EXCEPT !.res = data], proc[p].err)
                     ELSE IF proc[q].pc = "wait" /\ proc[q].joined = p
                          THEN [proc[q] EXCEPT !.pc = "wake", !.res = data,
                                               !.err = "nil"]
                          ELSE proc[q]]
       /\ group' = [group EXCEPT ![proc[p].key] = None]
    /\ hist' = Note(hist, Done(proc[p], proc[p].err), lru, now)
    /\ UNCHANGED <<now, lru, opt, db, ops, stats, cacheHist>>

\* group.Do: fn returned; the call is taken out of the group and its result
\* handed to the callers that joined it.
Publish(p) ==
    /\ proc[p].pc = "publish"
    /\ LET data == IF proc[p].err = "nil" THEN proc[p].val ELSE NilValue IN
       /\ proc' = [q \in Procs |->
                     IF q = p THEN Done([proc[p] EXCEPT !.res = data], proc[p].err)
                     ELSE IF proc[q].pc = "wait" /\ proc[q].joined = p
                          THEN [proc[q] EXCEPT !.pc = "wake", !.res = data,
                                               !.err = proc[p].err]
                          ELSE proc[q]]
       /\ group' = [group EXCEPT ![proc[p].key] = None]
    /\ hist' = Note(hist, Done(proc[p], proc[p].err), lru, now)
    /\ UNCHANGED <<now, lru, opt, db, ops, stats, cacheHist>>

\* group.Do returns in a caller that had joined: MemoizeWithTTL returns the
\* error, or nil.
Wake(p) ==
    /\ proc[p].pc = "wake"
    /\ Step(p, Done(proc[p], proc[p].err), lru, db)
    /\ UNCHANGED <<group, stats, ops>>

\* The operation has returned to its caller, who may start the next one.
Return(p) ==
    /\ proc[p].pc = "done"
    /\ proc' = [proc EXCEPT ![p] = IdleProc]
    /\ UNCHANGED <<now, lru, opt, db, group, ops, stats, hist, cacheHist>>

\* Remove: `s.lru.Delete(key)`, the map lookup.
RemoveLookup(p) ==
    /\ proc[p].pc = "rdel"
    /\ Step(p, [proc[p] EXCEPT !.ok = Lookup(lru, proc[p].key), !.pc = "rdel2"],
            lru, db)
    /\ UNCHANGED <<group, stats, ops>>

\* Remove that leaves the cache alone.
RemoveCacheSkip(p) ==
    /\ proc[p].pc = "rdel2"
    /\ Step(p, [proc[p] EXCEPT !.pc = "rdb"], lru, db)
    /\ UNCHANGED <<group, stats, ops>>

\* Remove: the rest of lru.Delete.
RemoveCache(p) ==
    /\ proc[p].pc = "rdel2"
    /\ Step(p, [proc[p] EXCEPT !.pc = "rdb"],
            DeleteApply(lru, proc[p].ok, proc[p].key), db)
    /\ UNCHANGED <<group, stats, ops>>

\* Remove: the write transaction of Delete commits.
RemoveEngine(p) ==
    /\ proc[p].pc = "rdb"
    /\ Step(p, Done(proc[p], "nil"), lru,
            BucketDelete(db, _defaultBucket, proc[p].key))
    /\ UNCHANGED <<group, stats, ops>>

\* Remove: the write transaction of Delete fails.
RemoveEngineFails(p) ==
    /\ proc[p].pc = "rdb"
    /\ Step(p, Done(proc[p], "EngineErr"), lru, db)
    /\ UNCHANGED <<group, stats, ops>>

\* Close, then Open on the same file with the same options: the records
\* stay, the cache starts empty.
Reopen ==
    /\ \A p \in Procs : proc[p].pc = "idle"
    /\ CacheOn /\ lru.evictList # <<>>
    /\ lru' = newLRU(opt.maxCacheSize)
    /\ group' = [k \in StoreKeys |-> None]
    /\ UNCHANGED <<now, opt, db, proc, ops, stats, hist, cacheHist>>

\* PutWithTTL(namespace, key, value, ttl) called by the user, up to its loop.
StartPut(p, limit) ==
    /\ CanStart(p, limit)
    /\ \E ns \in Namespaces, key \in StoreKeys, v \in Vals, ttl \in TTLs :
          Step(p, [NewCall("put", key, v, ttl, FALSE) EXCEPT
                      !.ns = ns, !.buf = Encode(v), !.pc = "put"], lru, db)
    /\ ops' = ops + 1
    /\ UNCHANGED <<group, stats>>

\* Get(namespace, key): one read transaction and the expiry check.
CallGet(p, limit) ==
    /\ CanStart(p, limit)
    /\ \E ns \in Namespaces, key \in StoreKeys :
          LET r == StoreGet(db, ns, key, now) IN
          Step(p, Done([NewCall("get", key, NilValue, 0, FALSE) EXCEPT
                           !.ns = ns, !.read = TRUE,
                           !.res = IF r.err = "nil" THEN Decode(r.value)
                                   ELSE NilValue], r.err),
               lru, db)
    /\ ops' = ops + 1
    /\ UNCHANGED <<group, stats>>

\* Delete(namespace, key): one write transaction.
CallDelete(p, limit) ==
    /\ CanStart(p, limit)
    /\ \E ns \in Namespaces, key \in StoreKeys :
          Step(p, Done([NewCall("delete", key, NilValue, 0, FALSE) EXCEPT
                           !.ns = ns], "nil"),
               lru, BucketDelete(db, ns, key))
    /\ ops' = ops + 1
    /\ UNCHANGED <<group, stats>>

\* DeleteNamespace(namespace): one write transaction.
CallDeleteNamespace(p, limit) ==
    /\ CanStart(p, limit)
    /\ \E ns \in Namespaces, key \in StoreKeys :
          LET r == DeleteNamespace(db, ns) IN
          Step(p, Done([NewCall("deleteNamespace", key, NilValue, 0, FALSE) EXCEPT
                           !.ns = ns], r.err),
               lru, r.db)
    /\ ops' = ops + 1
    /\ UNCHANGED <<group, stats>>

\* ------------------------------------------------------ specifications
InitStore ==
    /\ now = 0
    /\ \E n \in RetryOpts, size \in CacheOpts :
          /\ opt = Open(n, size)
          /\ lru = IF size > 0 THEN newLRU(size) ELSE None
    /\ db = [ns \in Namespaces |-> None]
    /\ group = [k \in StoreKeys |-> None]
    /\ proc = [p \in Procs |-> IdleProc]
    /\ ops = 0
    /\ stats = NoStats
    /\ hist = NoHist
    /\ lastOp = [op |-> "none"]
    /\ recency = <<>>
    /\ plain = TRUE

\* The steps of a call under way in caller p.
Run(p) ==
    \/ LoadLookup(p) \/ LoadCache(p) \/ LoadEngine(p) \/ LoadEngineFails(p)
    \/ LoadDecodeFails(p)
    \/ ComputeReturns(p) \/ ComputeFails(p)
    \/ PutCommits(p) \/ PutFails(p)
    \/ FillLookup(p) \/ FillCache(p)
    \/ RemoveLookup(p) \/ RemoveCache(p) \/ RemoveEngine(p) \/ RemoveEngineFails(p)

\* One caller, one operation after the other.
NextSeq ==
    \/ Tick(MaxTime)
    \/ StartUpdate(1, MaxOps) \/ StartLoad(1, MaxOps)
    \/ StartRemove(1, MaxOps) \/ StartMemoize(1, MaxOps)
    \/ Run(1) \/ Do(1) \/ Publish(1) \/ Return(1)
    \/ Reopen

SpecSeq == InitStore /\ [][NextSeq]_vars

\* One caller of the namespaced operations, one after the other.
NextRaw ==
    \/ Tick(MaxTime)
    \/ StartPut(1, MaxRawOps) \/ PutCommits(1) \/ PutFails(1)
    \/ CallGet(1, MaxRawOps) \/ CallDelete(1, MaxRawOps)
    \/ CallDeleteNamespace(1, MaxRawOps)
    \/ Return(1)

SpecRaw == InitStore /\ [][NextRaw]_vars

\* A burst: every caller calls MemoizeWithTTL once, all on one fresh store.
NextBurst ==
    \/ Tick(MaxSkew)
    \/ \E p \in Procs :
          \/ StartMemoize(p, NumProcs)
          \/ LoadLookup(p) \/ LoadCache(p) \/ LoadEngine(p) \/ LoadEngineFails(p)
          \/ LoadDecodeFails(p)
          \/ Do(p) \/ ComputeReturns(p) \/ ComputeFails(p)
          \/ PutCommits(p) \/ PutFails(p) \/ FillLookup(p) \/ FillCache(p)
          \/ Publish(p) \/ Wake(p)

SpecBurst == InitStore /\ [][NextBurst]_vars

\* A step of the call under way in caller p of a burst.
Advance(p) ==
    \/ LoadLookup(p) \/ LoadCache(p) \/ LoadEngine(p) \/ LoadEngineFails(p)
    \/ LoadDecodeFails(p)
    \/ Do(p) \/ ComputeReturns(p) \/ ComputeFails(p)
    \/ PutCommits(p) \/ PutFails(p) \/ FillLookup(p) \/ FillCache(p)
    \/ Publish(p) \/ Wake(p)

\* The burst under a fair scheduler: a caller that can take a step of its call
\* eventually takes one (computeFn and the engine calls return).
SpecBurstFair ==
    InitStore /\ [][NextBurst]_vars /\ \A p \in Procs : WF_vars(Advance(p))

\* Concurrent callers of one store.
Next ==
    \/ Tick(MaxSkew)
    \/ \E p \in Procs :
          \/ StartUpdate(p, MaxCalls) \/ StartLoad(p, MaxCalls)
          \/ StartRemove(p, MaxCalls) \/ StartMemoize(p, MaxCalls)
          \/ Run(p) \/ Do(p) \/ Publish(p) \/ Wake(p) \/ Return(p)

Spec == InitStore /\ [][Next]_vars


\* ------------------------------------------- the gob-encoded store
\* The store of src/unnamed/part_004: a record is the gob encoding of valueT,
\* which keeps Expire to the tick, and Load puts what it read from the engine
\* back into the cache.  One caller, each call run to its return.

\* bytesToValue(value, ttl), time.Now() reading t.
bytesToValue(value, ttl, t) ==
    [Value |-> value,
     Expire |-> IF ttl = 0 THEN ZeroTime ELSE AddSeconds(t, ttl)]

\* int64(valT.Expire.Sub(now).Seconds()), now reading t and not after Expire:
\* the whole seconds left; Sub saturates at the smallest duration for the
\* zero time, which gives a negative number of seconds.
SecondsLeft(v, t) ==
    IF IsZero(v.Expire) THEN -1 ELSE (v.Expire - t) \div TicksPerSecond

\* tryAddToLRU(key, value, ttl), time.Now() reading t.
tryAddToLRU(l, key, value, ttl, t) ==
    IF l = None THEN l
    ELSE Add(l, key, IF ttl > 0 THEN AddSeconds(t, ttl) ELSE ZeroTime, value)

\* The record the default bucket holds for key, as get decodes it.
GobGet(d, key) ==
    IF d[_defaultBucket] = None THEN [err |-> "ErrKeyNotFound", value |-> None]
    ELSE IF d[_defaultBucket][key] = None
         THEN [err |-> "ErrKeyNotFound", value |-> None]
         ELSE [err |-> "nil", value |-> d[_defaultBucket][key]]

\* PutWithTTL on the default bucket, called by the user: the cache is not
\* told.  The write transaction commits.
GobPutWithTTL(key, value, ttl) ==
    /\ \A p \in Procs : proc[p].pc = "idle"
    /\ db' = BucketPut(db, _defaultBucket, key,
                       bytesToValue(Encode(value), ttl, now))
    /\ lastOp' = [op |-> "put", key |-> key]
    /\ UNCHANGED <<now, lru, opt, group, proc, ops, stats, hist, recency, plain>>

\* UpdateWithTTL: PutWithTTL, then tryAddToLRU with the same ttl.
GobUpdateWithTTL(key, value, ttl) ==
    /\ \A p \in Procs : proc[p].pc = "idle"
    /\ db' = BucketPut(db, _defaultBucket, key,
                       bytesToValue(Encode(value), ttl, now))
    /\ lru' = tryAddToLRU(lru, key, value, ttl, now)
    /\ lastOp' = [op |-> "update", key |-> key]
    /\ UNCHANGED <<now, opt, group, proc, ops, stats, hist, recency, plain>>

\* Load with a target: the cache first; on a miss get, the expiry test, the
\* decoding, then tryAddToLRU with the seconds left.  lastOp keeps what the
\* call read and returned.
GobLoad(key) ==
    /\ \A p \in Procs : proc[p].pc = "idle"
    /\ LET c == IF CacheOn THEN Get(lru, key, now)
                 ELSE [lru |-> lru, value |-> None, ok |-> FALSE]
           r == GobGet(db, key) IN
       IF c.ok
       THEN /\ lru' = c.lru
            /\ lastOp' = [op |-> "load", key |-> key, err |-> "nil",
                          obj |-> c.value, hit |-> TRUE, rec |-> None,
                          ttl |-> 0, t |-> now]
       ELSE IF r.err # "nil"
       THEN /\ lru' = c.lru
            /\ lastOp' = [op |-> "load", key |-> key, err |-> r.err,
                          obj |-> Unset, hit |-> FALSE, rec |-> None,
                          ttl |-> 0, t |-> now]
       ELSE IF ~IsZero(r.value.Expire) /\ After(now, r.value.Expire)
       THEN /\ lru' = c.lru
            /\ lastOp' = [op |-> "load", key |-> key, err |-> "ErrKeyExpired",
                          obj |-> Unset, hit |-> FALSE, rec |-> r.value,
                          ttl |-> 0, t |-> now]
       ELSE /\ lru' = tryAddToLRU(c.lru, key, Decode(r.value.Value),
                                  SecondsLeft(r.value, now), now)
            /\ lastOp' = [op |-> "load", key |-> key, err |-> "nil",
                          obj |-> Decode(r.value.Value), hit |-> FALSE,
                          rec |-> r.value, ttl |-> SecondsLeft(r.value, now),
                          t |-> now]
    /\ UNCHANGED <<now, opt, db, group, proc, ops, stats, hist, recency, plain>>

\* Remove: lru.Delete, then Delete on the default bucket.
GobRemove(key) ==
    /\ \A p \in Procs : proc[p].pc = "idle"
    /\ lru' = IF CacheOn THEN Delete(lru, key) ELSE lru
    /\ db' = BucketDelete(db, _defaultBucket, key)
    /\ lastOp' = [op |-> "remove", key |-> key]
    /\ UNCHANGED <<now, opt, group, proc, ops, stats, hist, recency, plain>>

NextGob ==
    \/ Tick(MaxTime)
    \/ \E key \in StoreKeys, value \in Vals, ttl \in TTLs :
          \/ GobPutWithTTL(key, value, ttl)
          \/ GobUpdateWithTTL(key, value, ttl)
    \/ \E key \in StoreKeys : GobLoad(key) \/ GobRemove(key)
    \/ Reopen

SpecGob == InitStore /\ [][NextGob]_vars


\* ----------------------------------------------------- claims on memoize
MemoDone(p) == proc[p].pc = "done" /\ proc[p].op = "memoize"

\* C1: N >= 2 concurrent memoize calls on one key absent from cache and
\* store, all succeeding: computeFn runs exactly once in all and the engine
\* receives exactly one write for the key, whatever the interleaving.
C1_ExactlyOnce ==
    (/\ NumProcs >= 2
     /\ \A p \in Procs : MemoDone(p) /\ proc[p].ret = "nil") =>
        \A k \in StoreKeys : stats[k].computes = 1 /\ stats[k].writes = 1

\* C2: every caller of the burst that returns success, the callers that
\* joined the call in flight included, has in its own target the value
\* computeFn returned to that call.
C2_AllReceive ==
    \A p \in Procs :
        (MemoDone(p) /\ proc[p].ret = "nil" /\ proc[p].loadRes # "nil") =>
            /\ proc[p].res \in Vals
            /\ proc[p].obj = proc[p].res

\* The callers inside the function handed to group.Do for key k.
Rebuilding(k) ==
    {p \in Procs : /\ proc[p].op = "memoize" /\ proc[p].key = k
                   /\ proc[p].pc \in {"compute", "put", "fill", "fill2", "publish"}}

\* C3: at every instant at most one computeFn (one reconstruction) is in
\* progress for a key across the concurrent memoize callers.
C3_SingleFlight ==
    \A k \in StoreKeys : Cardinality(Rebuilding(k)) <= 1

\* One caller is inside computeFn while another waits on its call.
C3_Witness ==
    \E p, q \in Procs :
        /\ proc[p].pc = "compute"
        /\ proc[q].pc = "wait" /\ proc[q].joined = p
        /\ proc[q].key = proc[p].key

\* No caller is inside a call.
AllReturned == \A p \in Procs : proc[p].pc \in {"idle", "done"}

\* C21: under a fair scheduler every caller that joined the call in flight
\* eventually returns, with the result of the owner of that call, and once
\* every caller has returned no call is left in the group.
C21_WaitersReturn ==
    /\ \A q \in Procs :
          (proc[q].pc = "wait") ~>
              (/\ proc[q].pc = "done" /\ proc[q].joined # 0
               /\ proc[proc[q].joined].pc = "done"
               /\ proc[q].ret = proc[proc[q].joined].ret
               /\ proc[q].res = proc[proc[q].joined].res)
    /\ [](AllReturned => \A k \in StoreKeys : group[k] = None)

\* Every caller has returned, one of them after joining the call of another.
C21_Witness ==
    /\ AllReturned
    /\ \E q \in Procs : proc[q].pc = "done" /\ proc[q].joined # 0
    /\ \A k \in StoreKeys : group[k] = None

\* The failures of a load that come from outside the store: the engine, the
\* target's decoder.
Faults == {"EngineErr", "DecodeErr"}

\* C11: in a burst whose computeFn or write fails, every caller that joined
\* the call in flight returns the error its owner returns (and nil when the
\* owner returns nil), having run nothing itself; computeFn ran once for each
\* call registered in the group, a failure is not followed by a second run.
C11_SharedFailure ==
    /\ \A q \in Procs :
          (MemoDone(q) /\ proc[q].joined # 0) =>
              /\ proc[proc[q].joined].pc = "done"
              /\ proc[q].ret = proc[proc[q].joined].ret
              /\ ~proc[q].ran /\ ~proc[q].wrote
    /\ \A k \in StoreKeys :
          /\ stats[k].computes =
                Cardinality({p \in Procs : proc[p].key = k /\ proc[p].ran})
          /\ stats[k].writes <= stats[k].computes

\* A caller that joined returned the error of a failed flight.
C11_Witness ==
    \E q \in Procs :
        /\ MemoDone(q) /\ proc[q].joined # 0
        /\ proc[q].ret \in {"ComputeErr", "ErrBadValue", "PutFailed"}
        /\ proc[proc[q].joined].ret = proc[q].ret

\* C12: after a memoize that computed X and returned success, a later
\* memoize of the key that does not overlap it, issued while the TTL (if any)
\* has not elapsed, returns X without invoking its computeFn, cache enabled
\* or not.
C12_MemoizedStays ==
    \A p \in Procs :
        (/\ MemoDone(p) /\ ~proc[p].objNil /\ proc[p].loadRes \notin Faults
         /\ hist[proc[p].key].prevMemo # NilValue
         /\ \/ hist[proc[p].key].prevDeadline = 0
            \/ now < hist[proc[p].key].prevDeadline) =>
            /\ proc[p].ret = "nil"
            /\ ~proc[p].ran
            /\ proc[p].obj = hist[proc[p].key].prevMemo

\* ------------------------------------- claims on the namespaced operations
\* The record stored under key in namespace ns, None without bucket or key.
Stored(d, ns, key) == IF d[ns] = None THEN None ELSE d[ns][key]

\* A stored record carries an expiry and the instant t is past it.
PastExpiry(rcd, t) ==
    rcd.expire # ZeroUnix /\ t > rcd.expire * TicksPerSecond

\* C13, the outcome: Get returns NotFound without bucket or key, Expired for
\* a record whose expiry is past, and the stored value otherwise.
C13_GetOutcome ==
    \A p \in Procs :
        (proc[p].pc = "done" /\ proc[p].op = "get") =>
            LET rcd == Stored(db, proc[p].ns, proc[p].key) IN
            IF rcd = None THEN proc[p].ret = "ErrKeyNotFound"
            ELSE IF PastExpiry(rcd, proc[p].t0) THEN proc[p].ret = "ErrKeyExpired"
            ELSE proc[p].ret = "nil" /\ proc[p].res = rcd.value.bytes

\* C13, the frame: a Get changes no record, and a record that yields Expired
\* keeps yielding Expired for as long as it is neither deleted nor overwritten.
C13_GetKeeps ==
    /\ \A p \in Procs :
          (proc[p].pc = "idle" /\ proc'[p].op = "get") => db' = db
    /\ \A ns \in Namespaces, key \in StoreKeys :
          (/\ StoreGet(db, ns, key, now).err = "ErrKeyExpired"
           /\ Stored(db', ns, key) = Stored(db, ns, key)) =>
              StoreGet(db', ns, key, now').err = "ErrKeyExpired"

\* C13: the outcomes of Get, and Get never deletes.
C13_Get == []C13_GetOutcome /\ [][C13_GetKeeps]_vars

\* A Get found a record past its expiry, which is still stored.
C13_Witness ==
    /\ proc[1].pc = "done" /\ proc[1].op = "get"
    /\ proc[1].ret = "ErrKeyExpired"
    /\ Stored(db, proc[1].ns, proc[1].key) # None

\* C14, the bound: inside the loop of PutWithTTL fewer than R attempts have
\* failed, R being the configured count and 3 for a configured 0, so at least
\* one attempt is made and at most R.
C14_AttemptsBound ==
    /\ opt.numRetries \in (RetryOpts \ {0}) \cup {_defaultNumRetries}
    /\ \A p \in Procs :
          proc[p].pc = "put" => proc[p].c >= 0 /\ proc[p].c < opt.numRetries

\* C14, the attempts of a Put: a failed attempt that is not the R-th leaves
\* the store as it is and is counted; the first attempt that succeeds ends
\* the call with success and the record written; the R-th failed attempt ends
\* it with the wrapped error and nothing written.
C14_Attempt ==
    \A p \in Procs :
        (proc[p].pc = "put" /\ proc[p].op = "put" /\ proc'[p] # proc[p]) =>
            \/ /\ proc'[p].pc = "put"
               /\ proc'[p].c = proc[p].c + 1
               /\ ~proc'[p].wrote /\ db' = db
            \/ /\ proc'[p].pc = "done" /\ proc'[p].ret = "nil"
               /\ proc'[p].wrote /\ ~proc'[p].exhausted
               /\ Stored(db', proc[p].ns, proc[p].key) # None
               /\ Decode(Stored(db', proc[p].ns, proc[p].key).value) = proc[p].val
            \/ /\ proc'[p].pc = "done" /\ proc'[p].ret = "PutFailed"
               /\ proc[p].c + 1 = opt.numRetries
               /\ proc'[p].exhausted /\ ~proc'[p].wrote /\ db' = db

\* C14: Put makes between one and R attempts, succeeds iff one of them does,
\* and its loop ends.
C14_PutRetries == []C14_AttemptsBound /\ [][C14_Attempt]_vars

\* A Put failed on each of the default three attempts.
C14_Witness ==
    /\ proc[1].pc = "done" /\ proc[1].op = "put"
    /\ proc[1].exhausted /\ proc[1].ret = "PutFailed"
    /\ opt.numRetries = _defaultNumRetries

\* C15: Delete and DeleteNamespace are idempotent: each returns success, also
\* for a key, bucket or namespace that is absent, and applied once more right
\* after it has returned it gives the same outcome and leaves the same store.
C15_Idempotent ==
    \A p \in Procs :
        /\ (proc[p].pc = "done" /\ proc[p].op = "delete") =>
              /\ proc[p].ret = "nil"
              /\ BucketDelete(db, proc[p].ns, proc[p].key) = db
        /\ (proc[p].pc = "done" /\ proc[p].op = "deleteNamespace") =>
              /\ proc[p].ret = "nil"
              /\ DeleteNamespace(db, proc[p].ns).err = proc[p].ret
              /\ DeleteNamespace(db, proc[p].ns).db = db

\* A load of key issued now is served by the cache.
CacheServes(key) == CacheOn /\ Get(lru, key, now).ok

Writer(p) == proc[p].op \in {"update", "memoize"}

\* C4, first part: the cache is filled by a caller only after its engine
\* write has committed.
C4_FillAfterWrite ==
    \A p \in Procs :
        /\ proc[p].pc \in {"fill", "fill2"} => proc[p].wrote /\ proc[p].err = "nil"
        /\ proc[p].filled => proc[p].wrote

C8_TTLWindow ==
    \A p \in Procs :
        (/\ proc[p].pc = "done" /\ proc[p].op = "load"
         /\ ~proc[p].objNil /\ proc[p].ret \notin Faults
         /\ proc[p].t0 = now
         /\ hist[proc[p].key] # None
         /\ hist[proc[p].key].deadline > 0) =>
            /\ now < hist[proc[p].key].deadline =>
                  proc[p].ret = "nil" /\ proc[p].obj = hist[proc[p].key].val
            /\ now > hist[proc[p].key].deadline =>
                  proc[p].ret = "ErrKeyExpired"

\* C9: memoize runs computeFn iff its load returned NotFound or Expired; a
\* load that succeeds is returned without computing or writing; after Expired
\* the record is rewritten; any other load failure is returned unchanged with
\* nothing computed and nothing written.
C9_ComputeOnMiss ==
    \A p \in Procs :
        MemoDone(p) =>
            /\ (proc[p].ran \/ proc[p].joined # 0)
                  <=> proc[p].loadRes \in {"ErrKeyNotFound", "ErrKeyExpired"}
            /\ proc[p].loadRes = "nil" =>
                  /\ proc[p].ret = "nil"
                  /\ ~proc[p].wrote /\ ~proc[p].filled
                  /\ Record(db, proc[p].key) # None
                  /\ proc[p].obj = Decode(Record(db, proc[p].key).value)
            /\ (proc[p].loadRes = "ErrKeyExpired" /\ proc[p].ret = "nil") =>
                  /\ proc[p].wrote
                  /\ Record(db, proc[p].key) # proc[p].rec0
                  /\ Decode(Record(db, proc[p].key).value) = proc[p].val
                  /\ proc[p].obj = proc[p].val
            /\ proc[p].loadRes \notin {"nil", "ErrKeyNotFound", "ErrKeyExpired"} =>
                  /\ proc[p].ret = proc[p].loadRes
                  /\ ~proc[p].wrote /\ ~proc[p].filled
                  /\ Record(db, proc[p].key) = proc[p].rec0

\* A memoize found its record expired, ran computeFn and rewrote the record.
C9_Witness ==
    /\ MemoDone(1)
    /\ proc[1].loadRes = "ErrKeyExpired" /\ proc[1].ran
    /\ proc[1].ret = "nil" /\ proc[1].wrote

LoadDone(p) == proc[p].pc = "done" /\ proc[p].op = "load"

C17_RoundTrip ==
    \A p \in Procs :
        (/\ LoadDone(p) /\ ~proc[p].objNil /\ proc[p].ret \notin Faults
         /\ hist[proc[p].key] # None
         /\ hist[proc[p].key].upd # NilValue) =>
            /\ proc[p].ret = "nil"
            /\ proc[p].obj = hist[proc[p].key].upd

\* The load after an update was served by the engine of a store whose cache
\* is enabled and was empty.
C17_Witness ==
    /\ LoadDone(1) /\ proc[1].read /\ CacheOn
    /\ proc[1].ret = "nil"
    /\ hist[proc[1].key] # None
    /\ hist[proc[1].key].upd = proc[1].obj

\* C18, the result: a load served by the cache made no read transaction.
C18_HitNoRead ==
    \A p \in Procs : (LoadDone(p) /\ proc[p].hit) => ~proc[p].read

\* C18, the step: the cache lookup of a load changes no record, and when the
\* key is resident and live it ends the load with the cached value and no
\* read transaction (or with the error of the target's decoder).
C18_HitStep ==
    \A p \in Procs :
        (/\ proc[p].op = "load" /\ proc[p].pc \in {"lget", "lget2"}
         /\ proc'[p] # proc[p]) =>
            /\ db' = db
            /\ (proc[p].pc = "lget2" /\ CacheServes(proc[p].key)) =>
                  /\ proc'[p].pc = "done"
                  /\ proc'[p].hit /\ ~proc'[p].read
                  /\ \/ /\ proc'[p].ret = "nil"
                        /\ proc'[p].obj = Decode(Entry(lru, proc[p].key).value)
                     \/ proc'[p].ret = "DecodeErr"

\* C18: a load whose key is resident and live in the cache is served by the
\* cache alone.
C18_CacheHit == []C18_HitNoRead /\ [][C18_HitStep]_vars

\* A load was served by the cache.
C18_Witness ==
    /\ LoadDone(1) /\ proc[1].hit /\ proc[1].ret = "nil"
    /\ proc[1].obj \in Vals

\* C19: with the cache enabled, a load that missed the cache and read a live
\* record from the engine has put the key into the cache when it returns, so
\* that a load that follows at once is served by the cache.
C19_LoadFills ==
    \A p \in Procs :
        (/\ LoadDone(p) /\ CacheOn
         /\ proc[p].read /\ proc[p].ret = "nil"
         /\ proc[p].t0 = now) =>
            CacheServes(proc[p].key)

\* The callers between the map lookup and the list steps of a cache
\* operation: lru.Get in Load, lru.Add in tryAddToLRU, lru.Delete in Remove.
InsideCacheOp == {p \in Procs : proc[p].pc \in {"lget2", "fill2", "rdel2"}}

\* C20: the cache operations of concurrent callers are atomic with respect
\* to each other: never are two callers inside a cache operation at once.
C20_CacheAtomic == Cardinality(InsideCacheOp) <= 1

\* ------------------------------------------------------ claims on the cache
ListKeys(l) == {l.evictList[i].key : i \in DOMAIN l.evictList}

Min(a, b) == IF a < b THEN a ELSE b

\* C5: on a cache of capacity C >= 1, after any sequence of put, get and
\* delete (any keys, expiries and clock values) at most C entries are resident.
C5_Capacity ==
    /\ lru.size >= 1
    /\ Len(lru.evictList) <= lru.size
    /\ Cardinality(lru.items) <= lru.size

\* A new key was just put into a full cache, which is still exactly full.
C5_Witness ==
    /\ lastOp.op = "add" /\ ~lastOp.had
    /\ lastOp.count = lru.size
    /\ Len(lru.evictList) = lru.size
    /\ lastOp.key \in lru.items

\* C6: with no expiries and no deletes, the resident keys are exactly the
\* min(C, number of distinct keys put) most recently touched keys, a put and a
\* get hit both touching the key.
C6_LRUEviction ==
    plain =>
        LET n == Min(lru.size, Len(recency)) IN
        /\ ListKeys(lru) = {recency[i] : i \in 1..n}
        /\ lru.items = {recency[i] : i \in 1..n}
        /\ Len(lru.evictList) = n

\* A put of a new key at capacity evicted a key, and the key evicted is not
\* the one inserted first among the residents (a get hit had refreshed it).
C6_Witness ==
    /\ plain
    /\ lru.size = 2
    /\ lastOp.op = "add" /\ ~lastOp.had /\ lastOp.count = 2
    /\ Len(recency) = 3
    /\ lastOp.key = "c"
    /\ recency = <<"c", "a", "b">>
    /\ ListKeys(lru) = {"c", "a"}

\* C7 (state part): a get on a resident entry returns its value iff the entry
\* has no expiry or now < expiry; otherwise it returns not-found and removes
\* exactly that entry.
C7_GetOutcome ==
    (lastOp.op = "get" /\ lastOp.had) =>
        /\ lastOp.ok <=> (IsZero(lastOp.expire) \/ now < lastOp.expire)
        /\ lastOp.ok =>
               /\ lastOp.value = lastOp.stored
               /\ lastOp.key \in lru.items
               /\ Len(lru.evictList) = lastOp.count
        /\ ~lastOp.ok =>
               /\ lastOp.key \notin lru.items
               /\ lastOp.key \notin ListKeys(lru)
               /\ Len(lru.evictList) = lastOp.count - 1

\* C7 (step part): an entry without expiry leaves the cache only by a delete
\* of its key or as the back of the list when a new key is put at capacity.
C7_NoExpiryStep ==
    \A i \in DOMAIN lru.evictList :
        (/\ IsZero(lru.evictList[i].expire)
         /\ lru.evictList[i].key \notin ListKeys(lru')) =>
            \/ lastOp'.op = "delete" /\ lastOp'.key = lru.evictList[i].key
            \/ /\ lastOp'.op = "add" /\ ~lastOp'.had
               /\ lastOp'.count = lru.size
               /\ i = Len(lru.evictList)

\* C7: lazy expiry in the cache.
C7_LazyExpiry == []C7_GetOutcome /\ [][C7_NoExpiryStep]_vars

\* A get found its entry expired and removed it.
C7_Witness ==
    /\ lastOp.op = "get" /\ lastOp.had /\ ~lastOp.ok
    /\ ~IsZero(lastOp.expire) /\ now >= lastOp.expire
    /\ Len(lru.evictList) = lastOp.count - 1

\* C22: a key is in the map iff exactly one element of the list carries it,
\* and the map has as many keys as the list has elements.
C22_MapListConsistent ==
    /\ \A k \in Keys :
          (k \in lru.items) <=>
              Cardinality({i \in DOMAIN lru.evictList : lru.evictList[i].key = k}) = 1
    /\ \A i \in DOMAIN lru.evictList : lru.evictList[i].key \in lru.items
    /\ Cardinality(lru.items) = Len(lru.evictList)

\* A get has just expired an entry of a cache that holds another one.
C22_Witness ==
    /\ lastOp.op = "get" /\ lastOp.had /\ ~lastOp.ok
    /\ lastOp.count = 2
    /\ Cardinality(lru.items) = 1

\* C23, the step: a put on a resident key leaves the resident keys and their
\* number as they are, puts the key at the front with the new value and keeps
\* the order of the other entries.
C23_PutResidentStep ==
    (lastOp'.op = "add" /\ lastOp'.had) =>
        /\ lru'.items = lru.items
        /\ ListKeys(lru') = ListKeys(lru)
        /\ Len(lru'.evictList) = Len(lru.evictList)
        /\ lru'.evictList[1].key = lastOp'.key
        /\ lru'.evictList[1].value = lastOp'.value
        /\ Tail(lru'.evictList) =
              RemoveAt(lru.evictList, IndexOf(lru.evictList, lastOp'.key))

\* C23: a put on a resident key replaces the value and moves the entry to the
\* front without evicting anything, also at capacity.
C23_PutResident == [][C23_PutResidentStep]_vars

\* A resident key that was not at the front was put again into a full cache
\* of capacity 2.
C23_Witness ==
    /\ lastOp.op = "add" /\ lastOp.had
    /\ lru.size = 2 /\ lastOp.count = 2
    /\ Len(lru.evictList) = 2
    /\ lru.evictList[1].key = lastOp.key
    /\ lru.evictList[1].value = lastOp.value

\* C24: a put on a resident key replaces the expiry of the entry by the one
\* supplied (none meaning it never expires).
C24_PutReplacesExpiry ==
    (lastOp.op = "add" /\ lastOp.had) =>
        /\ Entry(lru, lastOp.key) # None
        /\ Entry(lru, lastOp.key).expire = lastOp.expire

\* C25, the step: a delete removes the entry of its key and nothing else,
\* keeps the other entries and their order, and changes nothing when the key
\* is absent; a get of the key then finds nothing.
C25_DeleteStep ==
    (lastOp'.op = "delete") =>
        /\ lru'.evictList =
              SelectSeq(lru.evictList, LAMBDA e : e.key # lastOp'.key)
        /\ lru'.items = lru.items \ {lastOp'.key}
        /\ lru'.size = lru.size
        /\ ~Get(lru', lastOp'.key, now').ok
        /\ lastOp'.had => Len(lru'.evictList) = Len(lru.evictList) - 1
        /\ ~lastOp'.had => lru' = lru

\* C25: delete removes the key if resident and is a no-op otherwise.
C25_Delete == [][C25_DeleteStep]_vars

\* A delete removed the entry at the front of a cache that held two.
C25_Witness ==
    /\ lastOp.op = "delete" /\ lastOp.had
    /\ lastOp.count = 2
    /\ Len(lru.evictList) = 1
    /\ lastOp.key \notin lru.items

\* ------------------------------------------------ claims on transparency
\* C27: a load returns with the cache what it returns without it.  Checked
\* for the load that follows a successful update of its key: the record is
\* then the one the update wrote, with or without a cache, so the store
\* without a cache returns what the read transaction and the expiry check
\* give at the instant of the load.
C27_CacheTransparent ==
    \A p \in Procs :
        (/\ LoadDone(p) /\ ~proc[p].objNil /\ proc[p].ret \notin Faults
         /\ proc[p].t0 = now
         /\ hist[proc[p].key] # None
         /\ hist[proc[p].key].op = "update"
         /\ hist[proc[p].key].ret = "nil") =>
            /\ proc[p].ret = LoadRead(db, proc[p].key, now).err
            /\ proc[p].ret = "nil" =>
                  proc[p].obj = LoadRead(db, proc[p].key, now).obj

\* ------------------------------------------ claims on concurrent callers
\* Caller p has returned from a successful op on key.
Returned(p, op, key) ==
    /\ proc[p].pc = "done" /\ proc[p].op = op
    /\ proc[p].key = key /\ proc[p].ret = "nil"

\* C28: once two concurrent updates of a key with different values have both
\* returned, the cache holds for the key the value the store holds.
C28_WritersAgree ==
    \A p, q \in Procs, k \in StoreKeys :
        (/\ p # q /\ CacheOn
         /\ Returned(p, "update", k) /\ Returned(q, "update", k)
         /\ proc[p].val # proc[q].val) =>
            /\ Entry(lru, k) # None
            /\ Record(db, k) # None
            /\ Decode(Entry(lru, k).value) = Decode(Record(db, k).value)

\* C29: once a remove and a concurrent load or update of the same key have
\* all returned, the cache holds an entry for the key only if the store holds
\* its record.
C29_RemoveLeavesNoEntry ==
    \A p, q \in Procs, k \in StoreKeys :
        (/\ p # q
         /\ Returned(p, "remove", k)
         /\ proc[q].pc = "done" /\ proc[q].op \in {"load", "update"}
         /\ proc[q].key = k) =>
            (Entry(lru, k) # None => Record(db, k) # None)

\* C30, the step: the persistent write of a memoize whose load found the key
\* absent, made after an update of the key has returned, leaves the value of
\* the update in the store.
C30_MemoizeWriteStep ==
    \A p, q \in Procs :
        (/\ proc[p].op = "memoize" /\ proc[p].pc = "put"
         /\ ~proc[p].wrote /\ proc'[p].wrote
         /\ proc[p].rec0 = None /\ proc[p].loadRes = "ErrKeyNotFound"
         /\ Returned(q, "update", proc[p].key)) =>
            /\ Record(db', proc[p].key) # None
            /\ Decode(Record(db', proc[p].key).value) = proc[q].val

\* C30: a memoize does not overwrite the value of an update that completed
\* between its load miss and its write.  No other call writes after the two,
\* so the value the write leaves is the one held when both have returned.
C30_MemoizeKeepsUpdate == [][C30_MemoizeWriteStep]_vars

\* ------------------------------------------ claims on the gob-encoded store
\* C26: a load that puts a record with an expiry back into the cache inserts
\* nothing when the whole seconds left are zero or less, and never inserts an
\* entry without expiry for it.
C26_NoFillWithoutLifetime ==
    (/\ lastOp.op = "load" /\ lastOp.err = "nil" /\ ~lastOp.hit
     /\ CacheOn
     /\ ~IsZero(lastOp.rec.Expire)) =>
        /\ lastOp.ttl <= 0 => Entry(lru, lastOp.key) = None
        /\ Entry(lru, lastOp.key) # None => ~IsZero(Entry(lru, lastOp.key).expire)

====
